---- MODULE Spec2Model ----
(***************************************************************************)
(* SmallSat Mission Planner (src/main.py): the Dash callback update_orbit  *)
(* and the two data-budget helpers it calls.                               *)
(*                                                                         *)
(* Numbers are fixed point, so that every float literal of the source is   *)
(* an integer here:                                                        *)
(*   altitude            km                                                *)
(*   inclination         0.1 deg          (51.6 deg = 516)                 *)
(*   semi-major axis     0.1 m            (Earth.R = 6378136.6 m)          *)
(*   propagation time t  2*pi / (num_points * (num_points - 1))            *)
(*   revisit             0.1 day          (round(x, 1))                    *)
(*   solar area          0.1 m2           (1.5 m2 = 15)                    *)
(*   solar efficiency    percent                                           *)
(*   eclipse fraction    0.01             (0.35 = 35)                      *)
(*   generated power     0.00001 W        (= 0.1 m2 * 1 % * 0.01)          *)
(*   power consumption   W                                                 *)
(*   sensor resolution   m                                                 *)
(*   data rate, storage  0.1 MB           (factor 0.1 = 1)                 *)
(* An optional number (a dcc.Input value) is None or Num(v).               *)
(***************************************************************************)
EXTENDS Integers, Sequences, FiniteSets

VARIABLES n_clicks, out, prev

vars == <<n_clicks, out, prev>>

----------------------------------------------------------------------------
(* Bounds of the model *)

MaxClicks == 2

MaxRes == 10

----------------------------------------------------------------------------
(* Python values *)

None == <<>>

Num(v) == <<v>>

\* Python truthiness of an optional number: None and 0 are falsy.
Truthy(x) == x # None /\ x[1] # 0

\* x or d
PyOr(x, d) == IF Truthy(x) THEN x[1] ELSE d

\* A dropdown with no selection
NoSelection == "<None>"

----------------------------------------------------------------------------
(* Layout defaults (app.layout) *)

DefaultOrbitType == "LEO"

DefaultAltitude == Num(500)

DefaultInclination == Num(975)

DefaultSensorType == "MSI"

DefaultResolution == Num(10)

DefaultSolarArea == Num(15)

DefaultSolarEff == Num(28)

DefaultPowerConsumption == Num(50)

----------------------------------------------------------------------------
(* Data budget helpers *)

\* Faulty variant: the HSI branch uses the MSI factor.
estimate_data_rate_hsi_as_msi(sensor_type, resolution) ==
    IF sensor_type \in {"MSI", "HSI"}
    THEN IF resolution = None THEN [exc |-> "TypeError", val |-> 0]
         ELSE [exc |-> "none", val |-> resolution[1] * 1]
    ELSE IF sensor_type = "SAR"
    THEN IF resolution = None THEN [exc |-> "TypeError", val |-> 0]
         ELSE [exc |-> "none", val |-> resolution[1] * 10]
    ELSE [exc |-> "none", val |-> 0]

\* resolution * factor raises TypeError when resolution is None.
estimate_data_rate(sensor_type, resolution) ==
    IF sensor_type = "MSI"
    THEN IF resolution = None THEN [exc |-> "TypeError", val |-> 0]
         ELSE [exc |-> "none", val |-> resolution[1] * 1]
    ELSE IF sensor_type = "HSI"
    THEN IF resolution = None THEN [exc |-> "TypeError", val |-> 0]
         ELSE [exc |-> "none", val |-> resolution[1] * 5]
    ELSE IF sensor_type = "SAR"
    THEN IF resolution = None THEN [exc |-> "TypeError", val |-> 0]
         ELSE [exc |-> "none", val |-> resolution[1] * 10]
    ELSE [exc |-> "none", val |-> 0]

calculate_onboard_storage(data_rate, downlink_time, mission_duration) ==
    LET data_per_day == data_rate * downlink_time
    IN  data_per_day * mission_duration

----------------------------------------------------------------------------
(* update_orbit: orbit resolution *)

\* Faulty variant: the presets are only defaults that the user's values override.
ResolveOrbit_user_overrides(orbit_type, altitude, inclination) ==
    IF orbit_type = "LEO"
    THEN [alt |-> PyOr(altitude, 500), inc |-> PyOr(inclination, 516)]
    ELSE IF orbit_type = "SSO"
    THEN [alt |-> PyOr(altitude, 600), inc |-> PyOr(inclination, 975)]
    ELSE IF orbit_type = "POLAR"
    THEN [alt |-> PyOr(altitude, 700), inc |-> PyOr(inclination, 900)]
    ELSE [alt |-> PyOr(altitude, 500), inc |-> PyOr(inclination, 900)]

ResolveOrbit(orbit_type, altitude, inclination) ==
    IF orbit_type = "LEO" THEN [alt |-> 500, inc |-> 516]
    ELSE IF orbit_type = "SSO" THEN [alt |-> 600, inc |-> 975]
    ELSE IF orbit_type = "POLAR" THEN [alt |-> 700, inc |-> 900]
    ELSE [alt |-> PyOr(altitude, 500), inc |-> PyOr(inclination, 900)]

\* Earth.R in 0.1 m
EarthR == 63781366

\* Faulty variant: the altitude is taken for the semi-major axis.
Elements_no_radius(alt, inc) ==
    [a |-> alt * 10000, ecc |-> 0, inc |-> inc,
     raan |-> 0, argp |-> 0, nu |-> 0]

\* Classical elements handed to Orbit.from_classical
Elements(alt, inc) ==
    [a |-> EarthR + alt * 10000, ecc |-> 0, inc |-> inc,
     raan |-> 0, argp |-> 0, nu |-> 0]

----------------------------------------------------------------------------
(* update_orbit: orbit path *)

num_points == 500

\* 2 * np.pi in units of 2*pi / (num_points * (num_points - 1))
TwoPi == num_points * (num_points - 1)

\* Faulty variant: np.linspace(start, stop, num, endpoint=False)
linspace_no_endpoint(start, stop, num) ==
    [i \in 1..num |-> start + (i - 1) * ((stop - start) \div num)]

\* np.linspace(start, stop, num): num samples, endpoint included
linspace(start, stop, num) ==
    [i \in 1..num |-> start + (i - 1) * ((stop - start) \div (num - 1))]

times == linspace(0, TwoPi, num_points)

\* for t in times: pos = orbit.propagate(t); x_vals.append(...)
\* The sequence of propagation parameters, one per appended point.
OrbitPath == [i \in 1..Len(times) |-> times[i]]

----------------------------------------------------------------------------
(* update_orbit: revisit time estimate *)

\* round(num / den, 1) in tenths, ties to even, for den > 0
Round1(num, den) ==
    LET q == (10 * num) \div den
        r == (10 * num) % den
    IN  IF 2 * r > den THEN q + 1
        ELSE IF 2 * r = den THEN q + (q % 2)
        ELSE q

earth_circumference_km == 40075

swath == 100

\* Faulty variant: the orbits per day are left out of the divisor.
revisit_without_orbits_per_day == Round1(earth_circumference_km, swath)

revisit_estimate_days == Round1(earth_circumference_km, swath * 14)

----------------------------------------------------------------------------
(* update_orbit: power budget analysis *)

solar_constant == 1361

eclipse_fraction == 35

\* generated_power units per watt
PowerUnit == 10 * 100 * 100

\* Faulty variant: the verdict needs a strict margin.
PowerBudget_strict(solar_area, solar_eff, power_consumption) ==
    LET solar_efficiency == PyOr(solar_eff, 28)
        area == PyOr(solar_area, 15)
        generated_power ==
            solar_constant * area * solar_efficiency * (100 - eclipse_fraction)
        power_used == PyOr(power_consumption, 50)
    IN  [generated_power |-> generated_power,
         power_used |-> power_used,
         verdict |-> IF generated_power > power_used * PowerUnit
                     THEN "sufficient" ELSE "insufficient"]

\* Faulty variant: a non-positive area or efficiency is replaced by the default.
PowerBudget_positive_only(solar_area, solar_eff, power_consumption) ==
    LET solar_efficiency ==
            IF solar_eff = None \/ solar_eff[1] <= 0 THEN 28 ELSE solar_eff[1]
        area ==
            IF solar_area = None \/ solar_area[1] <= 0 THEN 15
            ELSE solar_area[1]
        generated_power ==
            solar_constant * area * solar_efficiency * (100 - eclipse_fraction)
        power_used == PyOr(power_consumption, 50)
    IN  [generated_power |-> generated_power,
         power_used |-> power_used,
         verdict |-> IF generated_power >= power_used * PowerUnit
                     THEN "sufficient" ELSE "insufficient"]

PowerBudget(solar_area, solar_eff, power_consumption) ==
    LET solar_efficiency == PyOr(solar_eff, 28)
        area == PyOr(solar_area, 15)
        generated_power ==
            solar_constant * area * solar_efficiency * (100 - eclipse_fraction)
        power_used == PyOr(power_consumption, 50)
    IN  [generated_power |-> generated_power,
         power_used |-> power_used,
         verdict |-> IF generated_power >= power_used * PowerUnit
                     THEN "sufficient" ELSE "insufficient"]

----------------------------------------------------------------------------
(* update_orbit: data budget analysis *)

downlink_time == 12

mission_duration == 365

DataBudget(sensor_type, sensor_resolution) ==
    LET data_rate == estimate_data_rate(sensor_type, sensor_resolution)
    IN  IF data_rate.exc # "none"
        THEN [exc |-> data_rate.exc, data_rate |-> 0, required_storage |-> 0]
        ELSE [exc |-> "none", data_rate |-> data_rate.val,
              required_storage |->
                  calculate_onboard_storage(data_rate.val, downlink_time,
                                            mission_duration)]

----------------------------------------------------------------------------
(* update_orbit *)

\* The callback's arguments
Args(nc, orbit_type, altitude, inclination, sensor_type, sensor_resolution, solar_area, solar_eff, power_consumption) ==
    [n_clicks |-> nc, orbit_type |-> orbit_type, altitude |-> altitude,
     inclination |-> inclination, sensor_type |-> sensor_type,
     sensor_resolution |-> sensor_resolution, solar_area |-> solar_area,
     solar_eff |-> solar_eff, power_consumption |-> power_consumption]

\* The locals of update_orbit when it ends, and how it ends: status "ok" is
\* the return of (fig, revisit_output, power_output, data_output), status
\* "TypeError" the exception raised out of estimate_data_rate.
Respond(args, orb, el, path, revisit, pw, db) ==
    [status |-> IF db.exc = "none" THEN "ok" ELSE db.exc,
     args |-> args,
     alt |-> orb.alt, inc |-> orb.inc, el |-> el,
     t_vals |-> path,
     revisit_estimate_days |-> revisit,
     generated_power |-> pw.generated_power,
     power_used |-> pw.power_used,
     verdict |-> pw.verdict,
     data_rate |-> db.data_rate,
     required_storage |-> db.required_storage]

\* Faulty variant: the revisit estimate is scaled by the resolved altitude.
update_orbit_revisit_from_orbit(nc, orbit_type, altitude, inclination, sensor_type, sensor_resolution, solar_area, solar_eff, power_consumption) ==
    LET orb == ResolveOrbit(orbit_type, altitude, inclination)
    IN  Respond(Args(nc, orbit_type, altitude, inclination, sensor_type,
                     sensor_resolution, solar_area, solar_eff,
                     power_consumption),
                orb, Elements(orb.alt, orb.inc), OrbitPath,
                Round1(earth_circumference_km * orb.alt, swath * 14 * 500),
                PowerBudget(solar_area, solar_eff, power_consumption),
                DataBudget(sensor_type, sensor_resolution))

update_orbit(nc, orbit_type, altitude, inclination, sensor_type, sensor_resolution, solar_area, solar_eff, power_consumption) ==
    LET orb == ResolveOrbit(orbit_type, altitude, inclination)
    IN  Respond(Args(nc, orbit_type, altitude, inclination, sensor_type,
                     sensor_resolution, solar_area, solar_eff,
                     power_consumption),
                orb, Elements(orb.alt, orb.inc), OrbitPath,
                revisit_estimate_days,
                PowerBudget(solar_area, solar_eff, power_consumption),
                DataBudget(sensor_type, sensor_resolution))

----------------------------------------------------------------------------
(* State machine *)

NoArgs == Args(None, NoSelection, None, None, NoSelection, None, None, None,
               None)

\* Nothing rendered yet
NoOutput ==
    [status |-> "none", args |-> NoArgs, alt |-> 0, inc |-> 0,
     el |-> Elements(0, 0), t_vals |-> <<>>, revisit_estimate_days |-> 0,
     generated_power |-> 0, power_used |-> 0, verdict |-> "none",
     data_rate |-> 0, required_storage |-> 0]

\* What is kept of the invocation before the last one
Summary(o) ==
    [status |-> o.status, args |-> o.args,
     revisit_estimate_days |-> o.revisit_estimate_days,
     generated_power |-> o.generated_power, power_used |-> o.power_used,
     verdict |-> o.verdict, data_rate |-> o.data_rate,
     required_storage |-> o.required_storage]

Init ==
    /\ n_clicks = None
    /\ out = NoOutput
    /\ prev = Summary(NoOutput)

\* One click of update-btn with the given State values: n_clicks goes up
\* and the callback runs to completion.
Click(orbit_type, altitude, inclination, sensor_type, sensor_resolution, solar_area, solar_eff, power_consumption) ==
    /\ PyOr(n_clicks, 0) < MaxClicks
    /\ n_clicks' = Num(PyOr(n_clicks, 0) + 1)
    /\ out' = update_orbit(n_clicks', orbit_type, altitude, inclination,
                           sensor_type, sensor_resolution, solar_area,
                           solar_eff, power_consumption)
    /\ prev' = Summary(out)

----------------------------------------------------------------------------
(* Inputs: the values the form can hold *)

OrbitTypes == {"LEO", "SSO", "POLAR", "CUSTOM", NoSelection}

Altitudes == {None, Num(0), Num(400), Num(500)}

Inclinations == {None, Num(0), Num(450), Num(900), Num(1800)}

SensorTypes == {"MSI", "HSI", "SAR", "UNKNOWN", NoSelection}

Resolutions == {None} \cup {Num(r) : r \in -2..MaxRes}

SolarAreas == {None, Num(0), Num(-10), Num(1), Num(200)}

SolarEffs == {None, Num(0), Num(10), Num(100)}

PowerConsumptions == {None, Num(0), Num(-5), Num(50), Num(17693)}

\* The orbit fields vary, the rest of the form keeps its layout defaults.
ClickOrbit ==
    \E ot \in OrbitTypes, al \in Altitudes, inc \in Inclinations :
        Click(ot, al, inc, DefaultSensorType, DefaultResolution,
              DefaultSolarArea, DefaultSolarEff, DefaultPowerConsumption)

\* The power fields vary.
ClickPower ==
    \E ar \in SolarAreas, ef \in SolarEffs, pc \in PowerConsumptions :
        Click(DefaultOrbitType, DefaultAltitude, DefaultInclination,
              DefaultSensorType, DefaultResolution, ar, ef, pc)

\* The sensor fields vary.
ClickData ==
    \E st \in SensorTypes, res \in Resolutions :
        Click(DefaultOrbitType, DefaultAltitude, DefaultInclination, st, res,
              DefaultSolarArea, DefaultSolarEff, DefaultPowerConsumption)

\* Orbit, sensor and power fields vary together.
ClickAny ==
    \E ot \in {"LEO", "POLAR", "CUSTOM"}, al \in {None, Num(400)},
       inc \in {Num(0), Num(450)}, st \in {"MSI", "UNKNOWN"},
       res \in {None, Num(MaxRes)}, pc \in {Num(50), Num(400)} :
        Click(ot, al, inc, st, res, DefaultSolarArea, DefaultSolarEff, pc)

Next == ClickAny

Spec == Init /\ [][Next]_vars

NextOrbit == ClickOrbit

SpecOrbit == Init /\ [][NextOrbit]_vars

NextPower == ClickPower

SpecPower == Init /\ [][NextPower]_vars

NextData == ClickData

SpecData == Init /\ [][NextData]_vars

----------------------------------------------------------------------------
(* Properties *)

Ran == out.status # "none"

Preset == {"LEO", "SSO", "POLAR"}

\* None or the number itself: the supplied value, if one was supplied
Supplied(x, d) == IF x = None THEN d ELSE x[1]

\* The value after "null or zero -> default" substitution
Defaulted(x, d) == IF x = None \/ x = Num(0) THEN d ELSE x[1]

\* C1: for orbit type LEO, SSO or POLAR the resolved altitude and
\* inclination are the policy-table pair (500 km, 51.6 deg), (600 km,
\* 97.5 deg), (700 km, 90.0 deg), whatever altitude and inclination the
\* user supplied, absent ones included.
C1_PresetIgnoresUser ==
    Ran =>
        /\ out.args.orbit_type = "LEO" => out.alt = 500 /\ out.inc = 516
        /\ out.args.orbit_type = "SSO" => out.alt = 600 /\ out.inc = 975
        /\ out.args.orbit_type = "POLAR" => out.alt = 700 /\ out.inc = 900

C1_Witness ==
    /\ out.status = "ok"
    /\ out.args.orbit_type = "POLAR"
    /\ out.args.altitude = Num(400)
    /\ out.args.inclination = Num(0)

\* C2: for CUSTOM and for every orbit type that is not one of the four enum
\* values, the resolved altitude is the user's altitude whenever one is
\* supplied and 500 km only when it is missing, and the resolved inclination
\* is the user's inclination whenever one is supplied, 0 included, and
\* 90 deg only when it is missing.
C2_CustomKeepsSupplied ==
    (Ran /\ out.args.orbit_type \notin Preset) =>
        /\ out.alt = Supplied(out.args.altitude, 500)
        /\ out.inc = Supplied(out.args.inclination, 900)

\* C3: the data budget has no failure mode: for every sensor type and every
\* resolution, an absent one included, a rate and a storage value come back
\* instead of an exception, and an unknown sensor type gives rate 0 and
\* storage 0.
C3_NoFailure ==
    Ran =>
        /\ out.status = "ok"
        /\ out.args.sensor_type \notin {"MSI", "HSI", "SAR"} =>
               out.data_rate = 0 /\ out.required_storage = 0

\* C4 as claimed: exactly num_points samples, the i-th (from 0) at
\* t = i * 2*pi / num_points, so the last one is strictly before a full
\* period and none repeats the parameter of sample 0.
C4_HalfOpen ==
    Ran =>
        /\ Len(out.t_vals) = num_points
        /\ \A i \in 1..Len(out.t_vals) :
               out.t_vals[i] * num_points = (i - 1) * TwoPi
        /\ out.t_vals[Len(out.t_vals)] < TwoPi
        /\ \A i \in 2..Len(out.t_vals) :
               out.t_vals[i] % TwoPi # out.t_vals[1] % TwoPi

\* C4 as amended: exactly num_points samples, evenly spaced over the closed
\* interval [0, 2*pi]: the i-th (from 0) at t = i * 2*pi / (num_points - 1),
\* the first at 0 and the last at exactly one full period, so the last
\* sample repeats the parameter of sample 0 and no other sample does.
C4_ClosedInterval ==
    Ran =>
        /\ Len(out.t_vals) = num_points
        /\ \A i \in 1..Len(out.t_vals) :
               out.t_vals[i] * (num_points - 1) = (i - 1) * TwoPi
        /\ out.t_vals[1] = 0
        /\ out.t_vals[Len(out.t_vals)] = TwoPi
        /\ \A i \in 2..(Len(out.t_vals) - 1) :
               out.t_vals[i] % TwoPi # out.t_vals[1] % TwoPi

C4_Witness ==
    /\ out.status = "ok"
    /\ Len(out.t_vals) > 2
    /\ out.args.orbit_type = "CUSTOM"

\* C5: the verdict is "sufficient" exactly when the generated power is at
\* least the consumed power, the consumption being the supplied one after
\* default substitution; equality counts as sufficient and every other case
\* is "insufficient".
C5_VerdictIffEnough ==
    Ran =>
        /\ out.power_used = Defaulted(out.args.power_consumption, 50)
        /\ out.verdict \in {"sufficient", "insufficient"}
        /\ out.verdict = "sufficient" <=>
               out.generated_power >= out.power_used * PowerUnit

C5_Witness ==
    /\ out.status = "ok"
    /\ out.generated_power = out.power_used * PowerUnit
    /\ out.args.power_consumption = Num(17693)

\* C6: the generated power is 1361 * area * (efficiency / 100) * (1 - 0.35)
\* where area, efficiency and consumption are the supplied values unless
\* they are null or zero, when they are 1.5 m2, 28 % and 50 W; negative
\* values pass through unchanged.
C6_GeneratedPower ==
    Ran =>
        /\ out.generated_power =
               1361 * Defaulted(out.args.solar_area, 15)
                    * Defaulted(out.args.solar_eff, 28) * (100 - 35)
        /\ out.power_used = Defaulted(out.args.power_consumption, 50)

C6_Witness ==
    /\ out.status = "ok"
    /\ out.args.solar_area = Num(-10)
    /\ out.args.solar_eff = Num(0)
    /\ out.args.power_consumption = Num(-5)
    /\ out.generated_power < 0

\* C7: for every sensor type and every numeric resolution the data rate is
\* resolution * 0.1 for MSI, * 0.5 for HSI, * 1.0 for SAR and 0 for any
\* other type, and the required storage is the rate * 12 * 365.
C7_RateAndStorage ==
    (Ran /\ out.args.sensor_resolution # None) =>
        LET res == out.args.sensor_resolution[1]
            st == out.args.sensor_type
        IN  /\ out.status = "ok"
            /\ out.data_rate = IF st = "MSI" THEN res
                               ELSE IF st = "HSI" THEN 5 * res
                               ELSE IF st = "SAR" THEN 10 * res
                               ELSE 0
            /\ out.required_storage = out.data_rate * 12 * 365

C7_Witness ==
    /\ out.status = "ok"
    /\ out.args.sensor_type = "HSI"
    /\ out.args.sensor_resolution = Num(10)
    /\ out.data_rate = 50

C9_CircularCanonical ==
    Ran =>
        /\ out.el.ecc = 0
        /\ out.el.raan = 0
        /\ out.el.argp = 0
        /\ out.el.nu = 0
        /\ out.el.inc = out.inc
        /\ out.el.a = 63781366 + out.alt * 10000

C9_Witness ==
    /\ out.status = "ok"
    /\ out.args.orbit_type = "CUSTOM"
    /\ out.args.altitude = Num(400)
    /\ out.alt = 400

BudgetArgs(a) ==
    <<a.sensor_type, a.sensor_resolution, a.solar_area, a.solar_eff,
      a.power_consumption>>

OrbitArgs(a) == <<a.orbit_type, a.altitude, a.inclination>>

BudgetOutputs(o) ==
    <<o.status, o.revisit_estimate_days, o.generated_power, o.power_used,
      o.verdict, o.data_rate, o.required_storage>>

\* C10: two invocations that agree on sensor type, resolution, solar area,
\* efficiency and consumption give the same revisit, power and data-budget
\* results, however they differ in orbit type, altitude, inclination and
\* n_clicks.
C10_BudgetsIgnoreOrbit ==
    (Ran /\ prev.status # "none" /\ BudgetArgs(out.args) = BudgetArgs(prev.args))
        => BudgetOutputs(out) = BudgetOutputs(prev)

C10_Witness ==
    /\ out.status = "ok"
    /\ prev.status = "ok"
    /\ BudgetArgs(out.args) = BudgetArgs(prev.args)
    /\ out.args.orbit_type = "CUSTOM"
    /\ out.args.altitude = Num(400)
    /\ prev.args.orbit_type = "POLAR"
    /\ prev.args.altitude = None
    /\ out.args.inclination # prev.args.inclination
    /\ out.args.n_clicks # prev.args.n_clicks

====
